---- MODULE Spec2Model ----
(***************************************************************************)
(* The training-loop lifecycle of 2_Intro_Train.ipynb: the single-device   *)
(* loop train_loop_torch with its metrics log and weights file, and the    *)
(* multi-worker loop train_loop_ray_train with its per-worker report call. *)
(* A run of the notebook is either Part 1 (single device) or Parts 2-6     *)
(* (Ray Train); `variant' says which.                                      *)
(*                                                                         *)
(* Abstractions: the data of a parameter tensor is the number of optimizer *)
(* steps applied to it; a batch is its size, its number of correctly       *)
(* classified samples and the sum of the log2 probabilities the model      *)
(* gives to the true classes (at most one bit per sample); floats are      *)
(* fixed point in hundredths.                                              *)
(***************************************************************************)
EXTENDS Integers, Sequences, FiniteSets, TLC

\* ---- bounds of the model ----
MaxEpochs == 2
MaxData == 2
MaxBatchSize == 2
MaxWorkers == 2
MaxGlobalBatch == 3
MaxRerunEpochs == 1
MaxRerunData == 1

\* resnet18(num_classes=10)
NumClasses == 10

LocalPaths == {"./checkpoints", "/mnt/cluster_storage/single_gpu_mnist/torch_ts/"}

VARIABLES
    variant,      \* "torch": Part 1 of the notebook; "ray": Parts 2-6
    \* ---- Part 1: train_loop_torch ----
    pc,           \* position of train_loop_torch
    raised,       \* an exception has propagated out of train_loop_torch
    num_epochs, batch_size, local_path,   \* arguments of train_loop_torch
    train_data,   \* number of samples of the dataset
    epoch,        \* loop variable of the epoch loop (= iterations completed)
    batch,        \* batches drawn from data_loader in the current epoch
    model,        \* the model: its parameters
    loss,         \* local variable loss: << >> while unbound, else <<value>>
    acc,          \* torchmetrics.Accuracy state: [correct, total]
    metrics,      \* local variable metrics: ordered dict as a sequence of <<key, value>>
    dirs,         \* directories that exist
    files,        \* the file system: path <<dir, name>> -> content
    calls,        \* how often each call of the loop body has returned
    metrics_df,   \* what the read_csv cell has read: << >> before it ran
    \* ---- Parts 2-6: train_loop_ray_train ----
    cell,         \* the next cell of Parts 4-6 to run
    save_def,     \* the definition save_checkpoint_and_metrics_ray_train is bound to
    world_size,   \* ScalingConfig(num_workers=...)
    config,       \* train_loop_config: [num_epochs, global_batch_size]
    worker,       \* rank -> the state of that worker's train_loop_ray_train
    storage,      \* the checkpoints ray.train.report has persisted, oldest first
    loaded_model, \* the model of the reload cell: << >> before it ran
    \* ---- the session around the notebook ----
    runs,         \* the calls of train_loop_torch that have returned: their num_epochs
    \* ---- Makefile: make venv ----
    make_pc,      \* the next command of the recipe (0: make is not run)
    make_ran,     \* the commands the shell has run, each with its exit status
    activate_exists,   \* $(HOME)/.virtualenvs/rs24/bin/activate exists
    make_exit     \* the exit status of make: << >> while it runs

args == <<num_epochs, batch_size, local_path, train_data>>

torchVars == <<pc, raised, args, epoch, batch, model, loss, acc, metrics, dirs, files,
               calls, metrics_df>>

rayVars == <<cell, save_def, world_size, config, worker, storage, loaded_model>>

makeVars == <<make_pc, make_ran, activate_exists, make_exit>>

\* what no step of the notebook's loops changes
session == <<variant, runs, makeVars>>

vars == <<session, torchVars, rayVars>>

\* ---------------------------------------------------------------------
\* Pure helpers
\* ---------------------------------------------------------------------

DigitChars == <<"0", "1", "2", "3", "4", "5", "6", "7", "8", "9">>

RECURSIVE Digits(_)
\* the decimal digits of a non-negative integer
Digits(n) ==
    IF n < 10 THEN <<DigitChars[n + 1]>> ELSE Append(Digits(n \div 10), DigitChars[(n % 10) + 1])

\* str(n) of an int
IntStr(n) == IF n < 0 THEN <<"-">> \o Digits(0 - n) ELSE Digits(n)

\* str(x) of a float x of v hundredths: the shortest decimal that reads back as x
FloatStr(v) ==
    LET a == IF v < 0 THEN 0 - v ELSE v
        frac == IF a % 10 = 0 THEN Digits((a % 100) \div 10)
                ELSE <<DigitChars[((a % 100) \div 10) + 1], DigitChars[(a % 10) + 1]>>
    IN  (IF v < 0 THEN <<"-">> ELSE << >>) \o Digits(a \div 100) \o <<".">> \o frac

\* a Python number: an int, or a float in hundredths
PyInt(n) == [type |-> "int", value |-> n]
PyFloat(v) == [type |-> "float", value |-> v]

\* str(x)
Str(x) == IF x.type = "int" THEN IntStr(x.value) ELSE FloatStr(x.value)

RECURSIVE ParseDigits(_)
\* the non-negative integer a sequence of digits denotes
ParseDigits(s) ==
    IF Len(s) = 0 THEN 0
    ELSE 10 * ParseDigits(SubSeq(s, 1, Len(s) - 1))
         + ((CHOOSE d \in DOMAIN DigitChars : DigitChars[d] = s[Len(s)]) - 1)

\* the number a csv field denotes: a float when it has a decimal point, else an int
ParseNumber(field) ==
    LET neg == Len(field) > 0 /\ field[1] = "-"
        body == IF neg THEN Tail(field) ELSE field
        sign == IF neg THEN 0 - 1 ELSE 1
    IN  IF \E i \in DOMAIN body : body[i] = "."
        THEN LET dot == CHOOSE i \in DOMAIN body : body[i] = "."
                 whole == SubSeq(body, 1, dot - 1)
                 frac == SubSeq(body, dot + 1, Len(body))
                 cents == IF Len(frac) = 1 THEN 10 * ParseDigits(frac) ELSE ParseDigits(frac)
             IN  PyFloat(sign * (100 * ParseDigits(whole) + cents))
        ELSE PyInt(sign * ParseDigits(body))

\* dict.values(): the values in insertion order
DictValues(d) == [i \in DOMAIN d |-> d[i][2]]

\* d[key] of an ordered dict
DictGet(d, key) == d[CHOOSE i \in DOMAIN d : d[i][1] = key][2]

\* csv.writer(f).writerow(values): one line, each value written with str()
writerow(values) == [i \in DOMAIN values |-> Str(values[i])]

\* os.path.join(local_path, name)
PathJoin(dir, name) == <<dir, name>>

\* the parameters of resnet18(num_classes=out_classes) whose conv1 is replaced by
\* Conv2d(in_channels, 64, kernel_size=(7, 7), ..., bias=False), in registration order
ParamNames == <<"conv1.weight", "fc.weight", "fc.bias">>

ParamShape(k, out_classes, in_channels) ==
    CASE k = "conv1.weight" -> <<64, in_channels, 7, 7>>
      [] k = "fc.weight" -> <<out_classes, 512>>
      [] k = "fc.bias" -> <<out_classes>>

\* a module: its parameters, an ordered dict name -> tensor, as a sequence of <<name, tensor>>
Module(out_classes, in_channels, device) ==
    [i \in DOMAIN ParamNames |->
        <<ParamNames[i],
          [shape |-> ParamShape(ParamNames[i], out_classes, in_channels),
           data |-> 0, device |-> device]>>]

\* build_resnet18(): a fresh model on the cpu
build_resnet18 == Module(NumClasses, 1, "cpu")

\* module.to(device)
To(m, device) == [i \in DOMAIN m |-> <<m[i][1], [m[i][2] EXCEPT !.device = device]>>]

\* load_model_torch(): build_resnet18() moved to the single GPU
load_model_torch == To(build_resnet18, "cuda")

\* module.state_dict(): the ordered dict of the module's parameters
state_dict(m) == m

\* optimizer.step(): every parameter is updated
OptimizerStep(m) == [i \in DOMAIN m |-> <<m[i][1], [m[i][2] EXCEPT !.data = @ + 1]>>]

\* torch.save(sd, path): the file holds one entry per key, with the storage and its location
torch_save(sd) ==
    [i \in DOMAIN sd |->
        [key |-> sd[i][1], shape |-> sd[i][2].shape,
         storage |-> sd[i][2].data, location |-> sd[i][2].device]]

\* torch.load(path, map_location=device, weights_only=True)
torch_load(file, map_location) ==
    [i \in DOMAIN file |->
        <<file[i].key,
          [shape |-> file[i].shape, data |-> file[i].storage, device |-> map_location]>>]

\* data_loader_torch(batch_size): DataLoader(..., drop_last=True) yields this many batches
NumBatches(n_data, b_size) == n_data \div b_size

\* the outcomes of the model on a batch of b_size samples: how many it classifies
\* correctly, and the sum of the log2 probabilities it gives to the true classes; a
\* sample costs at most one bit, and one bit when it is classified wrongly (the true
\* class then has probability at most 1/2)
Batches(b_size) ==
    {b \in [n : {b_size}, correct : 0..b_size, logp : (0 - b_size)..0] :
        b.logp <= 0 - (b.n - b.correct)}

\* CrossEntropyLoss()(outputs, labels): the mean over the batch of -log p(true class)
CrossEntropyLoss(b) == PyFloat((100 * (0 - b.logp)) \div b.n)

\* mutant of AccUpdate: the total counts batches, not samples
AccUpdateCountingBatches(a, b) == [correct |-> a.correct + b.correct, total |-> a.total + 1]

\* acc(outputs, labels): torchmetrics.Accuracy.update
AccUpdate(a, b) == [correct |-> a.correct + b.correct, total |-> a.total + b.n]

\* acc.compute(): correct / total, 0 when nothing was seen
AccCompute(a) == PyFloat(IF a.total = 0 THEN 0 ELSE (100 * a.correct) \div a.total)

\* acc.reset()
AccReset == [correct |-> 0, total |-> 0]

\* mutant of report_metrics_torch: the key order of print_metrics_ray_train
report_metrics_torch_reordered(l, accuracy, e) ==
    << <<"loss", l>>, <<"accuracy", accuracy>>, <<"epoch", PyInt(e)>> >>

\* report_metrics_torch: the metrics dict, in its insertion order
report_metrics_torch(l, accuracy, e) ==
    << <<"loss", l>>, <<"epoch", PyInt(e)>>, <<"accuracy", accuracy>> >>

\* pd.read_csv(..., header=None, names=["loss", "epoch", "accuracy"])
ReadCsvNames == <<"loss", "epoch", "accuracy">>

read_csv(rows) ==
    [r \in DOMAIN rows |->
        [name \in {ReadCsvNames[i] : i \in DOMAIN ReadCsvNames} |->
            ParseNumber(rows[r][CHOOSE i \in DOMAIN ReadCsvNames : ReadCsvNames[i] = name])]]

\* the content of a file, << >> when it does not exist (open(..., "a") creates it)
Content(path) == IF path \in DOMAIN files THEN files[path] ELSE << >>

\* mutant of AppendRow: the file is opened with "w", which truncates it
AppendRowTruncating(content, values) == <<writerow(values)>>

\* open(path, "a") ... writer.writerow(values): the row goes after what the file holds
AppendRow(content, values) == Append(content, writerow(values))

\* f with f[path] = content
Written(f, path, content) ==
    [p \in DOMAIN f \cup {path} |-> IF p = path THEN content ELSE f[p]]

\* ---------------------------------------------------------------------
\* train_loop_torch
\* ---------------------------------------------------------------------

\* mutant of TorchBody: save_checkpoint_and_metrics_torch saves the model first
TorchBodySavingFirst == <<"report", "reset", "mkdir", "torch_save", "writerow">>

\* the statements of the loop body after the batch loop, in program order
TorchBody == <<"report", "reset", "mkdir", "writerow", "torch_save">>

\* the statement after statement p of the loop body; the epoch loop head after the last
TorchSucc(p) ==
    LET i == CHOOSE j \in DOMAIN TorchBody : TorchBody[j] = p
    IN  IF i < Len(TorchBody) THEN TorchBody[i + 1] ELSE "for_epoch"

Called(what) == calls' = [calls EXCEPT ![what] = @ + 1]

\* statement p of the loop body returns: on to the next one, or to the next epoch
Advance(p) ==
    /\ pc' = TorchSucc(p)
    /\ epoch' = IF TorchSucc(p) = "for_epoch" THEN epoch + 1 ELSE epoch
    /\ Called(p)

\* mutant of Raise: the loop body is wrapped in try/except and goes on with the next epoch
RaiseCaught ==
    /\ raised' = TRUE
    /\ pc' = "for_epoch"
    /\ epoch' = epoch + 1
    /\ UNCHANGED <<batch, model, loss, acc, metrics, dirs, files, calls>>

\* an exception leaves train_loop_torch: nothing catches it
Raise ==
    /\ raised' = TRUE
    /\ pc' = "aborted"
    /\ UNCHANGED <<epoch, batch, model, loss, acc, metrics, dirs, files, calls>>

\* lines 188-196: criterion, model, optimizer, metric, data loader
Setup ==
    /\ pc = "setup"
    /\ model' = load_model_torch
    /\ acc' = AccReset
    /\ pc' = "for_epoch"
    /\ Called("setup")
    /\ UNCHANGED <<session, rayVars, args, raised, epoch, batch, loss, metrics, dirs,
                   files, metrics_df>>

\* mutant of ForEpoch: range(num_epochs + 1)
ForEpochOneMore ==
    /\ pc = "for_epoch"
    /\ IF epoch <= num_epochs
       THEN pc' = "for_batch" /\ batch' = 0
       ELSE pc' = "returned" /\ UNCHANGED batch
    /\ UNCHANGED <<session, rayVars, args, raised, epoch, model, loss, acc, metrics, dirs,
                   files, calls, metrics_df>>

\* line 199: for epoch in range(num_epochs)
ForEpoch ==
    /\ pc = "for_epoch"
    /\ IF epoch < num_epochs
       THEN pc' = "for_batch" /\ batch' = 0
       ELSE pc' = "returned" /\ UNCHANGED batch
    /\ UNCHANGED <<session, rayVars, args, raised, epoch, model, loss, acc, metrics, dirs,
                   files, calls, metrics_df>>

\* mutant of TrainStep: the loss is accumulated over the batches
TrainStepSummingLoss ==
    /\ pc = "for_batch"
    /\ batch < NumBatches(train_data, batch_size)
    /\ \E b \in Batches(batch_size) :
        /\ loss' = IF loss = << >> THEN <<CrossEntropyLoss(b)>>
                   ELSE <<PyFloat(loss[1].value + CrossEntropyLoss(b).value)>>
        /\ model' = OptimizerStep(model)
        /\ acc' = AccUpdate(acc, b)
    /\ batch' = batch + 1
    /\ Called("step")
    /\ UNCHANGED <<session, rayVars, args, pc, raised, epoch, metrics, dirs, files,
                   metrics_df>>

\* lines 200-216: one batch: forward, loss, backward, optimizer step, metric update
TrainStep ==
    /\ pc = "for_batch"
    /\ batch < NumBatches(train_data, batch_size)
    /\ \E b \in Batches(batch_size) :
        /\ loss' = <<CrossEntropyLoss(b)>>
        /\ model' = OptimizerStep(model)
        /\ acc' = AccUpdate(acc, b)
    /\ batch' = batch + 1
    /\ Called("step")
    /\ UNCHANGED <<session, rayVars, args, pc, raised, epoch, metrics, dirs, files,
                   metrics_df>>

\* mutant of EndOfBatches: the batch loop can be left before the data loader is exhausted
EndOfBatchesEarly ==
    /\ pc = "for_batch"
    /\ batch <= NumBatches(train_data, batch_size)
    /\ pc' = TorchBody[1]
    /\ UNCHANGED <<session, rayVars, args, raised, epoch, batch, model, loss, acc, metrics,
                   dirs, files, calls, metrics_df>>

\* line 200: the data loader is exhausted
EndOfBatches ==
    /\ pc = "for_batch"
    /\ batch = NumBatches(train_data, batch_size)
    /\ pc' = TorchBody[1]
    /\ UNCHANGED <<session, rayVars, args, raised, epoch, batch, model, loss, acc, metrics,
                   dirs, files, calls, metrics_df>>

\* line 219: metrics = report_metrics_torch(loss=loss, accuracy=acc.compute(), epoch=epoch)
\* (loss is unbound when no batch was ever drawn: UnboundLocalError)
Report ==
    /\ pc = "report"
    /\ IF loss = << >>
       THEN Raise
       ELSE /\ metrics' = report_metrics_torch(loss[1], AccCompute(acc), epoch)
            /\ Advance("report")
            /\ UNCHANGED <<raised, batch, model, loss, acc, dirs, files>>
    /\ UNCHANGED <<session, rayVars, args, metrics_df>>

\* mutant of Reset: the metric is left as it is
ResetSkipped ==
    /\ pc = "reset"
    /\ Advance("reset")
    /\ UNCHANGED <<session, rayVars, args, raised, batch, model, loss, acc, metrics, dirs,
                   files, metrics_df>>

\* line 222: acc.reset()
Reset ==
    /\ pc = "reset"
    /\ acc' = AccReset
    /\ Advance("reset")
    /\ UNCHANGED <<session, rayVars, args, raised, batch, model, loss, metrics, dirs,
                   files, metrics_df>>

\* mutant of Mkdir: the run directory is emptied when it exists
MkdirRecreating ==
    /\ pc = "mkdir"
    /\ dirs' = dirs \cup {local_path}
    /\ files' = [p \in {q \in DOMAIN files : q[1] # local_path} |-> files[p]]
    /\ Advance("mkdir")
    /\ UNCHANGED <<session, rayVars, args, raised, batch, model, loss, acc, metrics,
                   metrics_df>>

\* line 225: Path(local_path).mkdir(parents=True, exist_ok=True)
Mkdir ==
    /\ pc = "mkdir"
    /\ dirs' = dirs \cup {local_path}
    /\ Advance("mkdir")
    /\ UNCHANGED <<session, rayVars, args, raised, batch, model, loss, acc, metrics, files,
                   metrics_df>>

\* the file the metrics row goes to
MetricsPath == PathJoin(local_path, "metrics.csv")

\* mutant of CheckpointPath: one weights file per epoch
CheckpointPathPerEpoch == PathJoin(local_path, "model_" \o ToString(epoch) \o ".pt")

\* the file the weights go to
CheckpointPath == PathJoin(local_path, "model.pt")

\* lines 164-166: append one row to metrics.csv
WriteRow ==
    /\ pc = "writerow"
    /\ files' = Written(files, MetricsPath,
                        AppendRow(Content(MetricsPath), DictValues(metrics)))
    /\ Advance("writerow")
    /\ UNCHANGED <<session, rayVars, args, raised, batch, model, loss, acc, metrics, dirs,
                   metrics_df>>

\* lines 169-170: torch.save(model.state_dict(), checkpoint_path); the loop body ends
TorchSave ==
    /\ pc = "torch_save"
    /\ files' = Written(files, CheckpointPath, torch_save(state_dict(model)))
    /\ Advance("torch_save")
    /\ UNCHANGED <<session, rayVars, args, raised, batch, model, loss, acc, metrics, dirs,
                   metrics_df>>

\* the calls into the libraries, each of which can fail (no GPU, dataset download
\* failure, out of memory, disk full)
FailPoints == {"setup", "for_batch", "report", "mkdir", "writerow", "torch_save"}

Fail ==
    /\ pc \in FailPoints
    /\ Raise
    /\ UNCHANGED <<session, rayVars, args, metrics_df>>

\* lines 273-277: the cell that reads metrics.csv after the run
ReadCsvCell ==
    /\ pc = "returned"
    /\ MetricsPath \in DOMAIN files
    /\ metrics_df' = read_csv(files[MetricsPath])
    /\ pc' = "inspected"
    /\ UNCHANGED <<session, rayVars, args, raised, epoch, batch, model, loss, acc, metrics,
                   dirs, files, calls>>

\* ---------------------------------------------------------------------
\* train_loop_ray_train, one instance per worker
\* ---------------------------------------------------------------------

Ranks == DOMAIN worker

\* load_model_ray_train(): the model, moved to the device and wrapped by prepare_model in
\* DistributedDataParallel, which holds it as .module
load_model_ray_train == [module |-> To(Module(NumClasses, 1, "cpu"), "cuda")]

\* DistributedDataParallel.state_dict(): the keys of the wrapped module, prefixed
DDPStateDict(m) == [i \in DOMAIN m.module |-> <<"module." \o m.module[i][1], m.module[i][2]>>]

\* mutant of SavedStateDict: the wrapper's own state_dict is saved
SavedStateDictWrapped(m) == DDPStateDict(m)

\* lines 398, 436: model.module.state_dict(), what the worker saves
SavedStateDict(m) == state_dict(m.module)

\* mutant of LocalBatchSize: the division rounds up
LocalBatchSizeRoundedUp(global, size) == (global + size - 1) \div size

\* mutant of LocalBatchSize: every worker takes the global batch size
LocalBatchSizeUndivided(global, size) == global

\* line 476: batch_size = global_batch_size // world_size
LocalBatchSize(global, size) == global \div size

\* the samples the DistributedSampler of prepare_data_loader gives each worker
ShardSize(n_data, size) == (n_data + size - 1) \div size

\* the outcomes on a batch of a worker's shard, with the samples classified correctly
\* costing nothing
ShardBatches(b_size) ==
    {b \in Batches(b_size) : b.logp = 0 - (b.n - b.correct)}

\* print_metrics_ray_train: the metrics dict, in its insertion order
print_metrics_ray_train(l, accuracy, e) ==
    << <<"loss", l>>, <<"accuracy", accuracy>>, <<"epoch", PyInt(e)>> >>

\* mutant of RayBody: the with block ends before ray.train.report is called
RayBodyCleaningFirst == <<"print_metrics", "mkdtemp", "build", "cleanup", "report", "reset">>

\* mutant of RayBody: the metric is reset before the checkpoint is saved and reported
RayBodyResettingFirst == <<"print_metrics", "reset", "mkdtemp", "build", "report", "cleanup">>

\* the statements of the loop body after the batch loop, in program order, those of
\* save_checkpoint_and_metrics_ray_train inlined: entering the with block, building the
\* checkpoint, ray.train.report, leaving the with block
RayBody == <<"print_metrics", "mkdtemp", "build", "report", "cleanup", "reset">>

RaySucc(p) ==
    LET i == CHOOSE j \in DOMAIN RayBody : RayBody[j] = p
    IN  IF i < Len(RayBody) THEN RayBody[i + 1] ELSE "for_epoch"

\* a worker before the first statement of train_loop_ray_train
NewWorker ==
    [pc |-> "setup", raised |-> FALSE, raising |-> FALSE,
     epoch |-> 0, batch |-> 0, batch_size |-> 0,
     model |-> << >>, loss |-> << >>, acc |-> AccReset, metrics |-> << >>,
     tmp |-> << >>,          \* the temporary directory: << >>, or <<its files>>
     checkpoint |-> << >>,   \* local variable checkpoint: << >> for None, or <<directory>>
     set_epochs |-> << >>,   \* the arguments of the set_epoch calls
     reported |-> << >>,     \* the last ray.train.report call: <<[metrics, checkpoint]>>
     calls |-> [c \in {"step", "print_metrics", "mkdtemp", "build", "torch_save",
                        "report", "cleanup", "reset"} |-> 0]]

\* the workers run while fit() does; the trainer stops them all when one of them raises
Running == cell = "fitting" /\ \A q \in Ranks : ~worker[q].raised

\* worker r is now w; nothing else of Parts 2-6 changes
Becomes(r, w) ==
    /\ Running
    /\ worker' = [worker EXCEPT ![r] = w]
    /\ UNCHANGED <<session, torchVars, cell, save_def, world_size, config, loaded_model>>

\* worker w at the statement after statement p of the loop body
Continued(w, p) ==
    [w EXCEPT !.pc = RaySucc(p),
              !.epoch = IF RaySucc(p) = "for_epoch" THEN @ + 1 ELSE @]

\* worker w, having executed statement p of the loop body
Advanced(w, p) == [Continued(w, p) EXCEPT !.calls[p] = @ + 1]

\* an exception leaves train_loop_ray_train: nothing catches it
Raised(w) == [w EXCEPT !.pc = "aborted", !.raised = TRUE]

\* lines 470-479: criterion, model, optimizer, batch size, data loader, metric
\* (DataLoader refuses a batch size of 0)
RaySetup(r) ==
    /\ worker[r].pc = "setup"
    /\ LET b == LocalBatchSize(config.global_batch_size, world_size)
       IN  IF b = 0
           THEN Becomes(r, Raised(worker[r]))
           ELSE Becomes(r, [worker[r] EXCEPT !.pc = "for_epoch",
                                            !.model = load_model_ray_train,
                                            !.batch_size = b,
                                            !.acc = AccReset])
    /\ UNCHANGED storage

\* line 481: for epoch in range(config["num_epochs"])
RayForEpoch(r) ==
    /\ worker[r].pc = "for_epoch"
    /\ Becomes(r, [worker[r] EXCEPT
                      !.pc = IF worker[r].epoch < config.num_epochs
                             THEN "set_epoch" ELSE "returned"])
    /\ UNCHANGED storage

\* mutant of RaySetEpoch: the sampler is not told the epoch
RaySetEpochSkipped(r) ==
    /\ worker[r].pc = "set_epoch"
    /\ Becomes(r, [worker[r] EXCEPT !.pc = "for_batch", !.batch = 0])
    /\ UNCHANGED storage

\* line 483: data_loader.sampler.set_epoch(epoch)
RaySetEpoch(r) ==
    /\ worker[r].pc = "set_epoch"
    /\ Becomes(r, [worker[r] EXCEPT !.pc = "for_batch", !.batch = 0,
                                    !.set_epochs = Append(@, worker[r].epoch)])
    /\ UNCHANGED storage

\* lines 485-491: one batch of the worker's shard; the gradients are averaged across
\* the workers in loss.backward(), which no worker leaves before all have entered it
RayTrainStep(r) ==
    /\ worker[r].pc = "for_batch"
    /\ \A q \in Ranks : worker[q].calls["step"] >= worker[r].calls["step"]
    /\ worker[r].batch < NumBatches(ShardSize(train_data, world_size), worker[r].batch_size)
    /\ \E b \in ShardBatches(worker[r].batch_size) :
           Becomes(r, [worker[r] EXCEPT
                         !.loss = <<CrossEntropyLoss(b)>>,
                         !.model = [module |-> OptimizerStep(@.module)],
                         !.acc = AccUpdate(@, b),
                         !.batch = @ + 1,
                         !.calls["step"] = @ + 1])
    /\ UNCHANGED storage

\* line 485: the worker's shard is exhausted
RayEndOfBatches(r) ==
    /\ worker[r].pc = "for_batch"
    /\ worker[r].batch = NumBatches(ShardSize(train_data, world_size), worker[r].batch_size)
    /\ Becomes(r, [worker[r] EXCEPT !.pc = RayBody[1]])
    /\ UNCHANGED storage

RECURSIVE AccSum(_)
\* the metric states of ranks 0..n-1, added up
AccSum(n) ==
    IF n = 0 THEN AccReset
    ELSE LET rest == AccSum(n - 1)
         IN  [correct |-> rest.correct + worker[n - 1].acc.correct,
              total |-> rest.total + worker[n - 1].acc.total]

\* worker q has drawn all batches of epoch e and has not reset its metric since
MetricReady(q, e) ==
    /\ worker[q].epoch = e
    /\ worker[q].pc \in {"print_metrics", "mkdtemp", "build", "report", "in_report"}

\* line 493: metrics = print_metrics_ray_train(loss, acc.compute(), epoch); compute()
\* aggregates the metric across the workers (loss is unbound when no batch was drawn)
RayPrintMetrics(r) ==
    /\ worker[r].pc = "print_metrics"
    /\ IF worker[r].loss = << >>
       THEN Becomes(r, Raised(worker[r]))
       ELSE /\ \A q \in Ranks : MetricReady(q, worker[r].epoch)
            /\ Becomes(r, [Advanced(worker[r], "print_metrics") EXCEPT
                              !.metrics = print_metrics_ray_train(
                                  worker[r].loss[1], AccCompute(AccSum(world_size)),
                                  worker[r].epoch)])
    /\ UNCHANGED storage

\* lines 396, 432: with tempfile.TemporaryDirectory() as temp_checkpoint_dir
RayEnterTempDir(r) ==
    /\ worker[r].pc = "mkdtemp"
    /\ Becomes(r, [Advanced(worker[r], "mkdtemp") EXCEPT !.tmp = << << >> >>])
    /\ UNCHANGED storage

\* mutant of BuildsCheckpoint: the first definition's behaviour under either definition
BuildsCheckpointAlways(def, rank) == TRUE

\* whether the worker of this rank saves the model and passes a checkpoint, under the
\* first definition (lines 393-405: always) and under the second (lines 429-444: rank 0)
BuildsCheckpoint(def, rank) == IF def = 1 THEN TRUE ELSE rank = 0

\* lines 397-400, 433-438: checkpoint = None, or the model saved into the temporary
\* directory and checkpoint = Checkpoint.from_directory(temp_checkpoint_dir)
RayBuildCheckpoint(r) ==
    /\ worker[r].pc = "build"
    /\ IF BuildsCheckpoint(save_def, r)
       THEN Becomes(r, [Advanced(worker[r], "build") EXCEPT
                          !.tmp = <<Written(worker[r].tmp[1], "model.pt",
                                            torch_save(SavedStateDict(worker[r].model)))>>,
                          !.checkpoint = <<"temp_checkpoint_dir">>,
                          !.calls["torch_save"] = @ + 1])
       ELSE Becomes(r, [Advanced(worker[r], "build") EXCEPT !.checkpoint = << >>])
    /\ UNCHANGED storage

\* lines 401-404, 440-443: ray.train.report(metrics, checkpoint=checkpoint) is called;
\* the framework persists the directory of a checkpoint that is not None
RayReport(r) ==
    /\ Running
    /\ worker[r].pc = "report"
    /\ LET w == worker[r]
           ckpt == IF w.checkpoint = << >> THEN << >> ELSE <<w.tmp[1]>>
       IN  /\ worker' = [worker EXCEPT ![r] =
                   [w EXCEPT !.pc = "in_report",
                             !.reported = <<[metrics |-> w.metrics, checkpoint |-> ckpt]>>,
                             !.calls["report"] = @ + 1]]
           /\ storage' = IF ckpt = << >> THEN storage
                         ELSE Append(storage, [rank |-> r, epoch |-> w.epoch,
                                               files |-> ckpt[1]])
    /\ UNCHANGED <<session, torchVars, cell, save_def, world_size, config, loaded_model>>

\* ray.train.report returns once every worker has called it for this epoch (line 420)
RayReportReturns(r) ==
    /\ worker[r].pc = "in_report"
    /\ \A q \in Ranks : worker[q].calls["report"] >= worker[r].calls["report"]
    /\ Becomes(r, Continued(worker[r], "report"))
    /\ UNCHANGED storage

\* the with block is left: the temporary directory is removed, and an exception raised
\* inside the block goes on out of train_loop_ray_train
RayCleanup(r) ==
    /\ worker[r].pc = "cleanup"
    /\ IF worker[r].raising
       THEN Becomes(r, [Raised(worker[r]) EXCEPT !.tmp = << >>, !.checkpoint = << >>,
                                                 !.raising = FALSE])
       ELSE Becomes(r, [Advanced(worker[r], "cleanup") EXCEPT
                          !.tmp = << >>, !.checkpoint = << >>])
    /\ UNCHANGED storage

\* line 495: acc.reset()
RayReset(r) ==
    /\ worker[r].pc = "reset"
    /\ Becomes(r, [Advanced(worker[r], "reset") EXCEPT !.acc = AccReset])
    /\ UNCHANGED storage

\* a library call fails: a batch step (outside the with block) or ray.train.report
\* (inside it)
RayFail(r) ==
    /\ IF worker[r].pc = "for_batch"
       THEN Becomes(r, Raised(worker[r]))
       ELSE /\ worker[r].pc = "in_report"
            /\ Becomes(r, [worker[r] EXCEPT !.pc = "cleanup", !.raising = TRUE])
    /\ UNCHANGED storage

\* ---------------------------------------------------------------------
\* The cells of Parts 4-6
\* ---------------------------------------------------------------------

CellDone(next) ==
    /\ cell' = next
    /\ UNCHANGED <<session, torchVars, world_size, config>>

\* lines 393-405: the cell with the first definition
DefineSaveFirst ==
    /\ cell = "def_first"
    /\ save_def' = 1
    /\ CellDone("def_second")
    /\ UNCHANGED <<worker, storage, loaded_model>>

\* mutant of DefineSaveSecond: the cell is skipped
DefineSaveSecondSkipped ==
    /\ cell = "def_second"
    /\ CellDone("fit")
    /\ UNCHANGED <<save_def, worker, storage, loaded_model>>

\* lines 429-444: the cell with the second definition rebinds the name
DefineSaveSecond ==
    /\ cell = "def_second"
    /\ save_def' = 2
    /\ CellDone("fit")
    /\ UNCHANGED <<worker, storage, loaded_model>>

\* lines 569-575: TorchTrainer(...).fit() starts train_loop_ray_train on every worker
Fit ==
    /\ cell = "fit"
    /\ worker' = [r \in 0..(world_size - 1) |-> NewWorker]
    /\ CellDone("fitting")
    /\ UNCHANGED <<save_def, storage, loaded_model>>

\* line 575: fit() returns its result when every worker has returned
FitReturns ==
    /\ cell = "fitting"
    /\ \A r \in Ranks : worker[r].pc = "returned"
    /\ CellDone("reload")
    /\ UNCHANGED <<save_def, worker, storage, loaded_model>>

\* line 575: fit() raises when a worker has raised, and the other workers are stopped
FitFails ==
    /\ cell = "fitting"
    /\ \E r \in Ranks : worker[r].raised
    /\ CellDone("fit_failed")
    /\ UNCHANGED <<save_def, worker, storage, loaded_model>>

\* load_state_dict(sd) is strict: the keys and the shapes must be the module's
CanLoad(m, sd) ==
    /\ {sd[i][1] : i \in DOMAIN sd} = {m[i][1] : i \in DOMAIN m}
    /\ \A i \in DOMAIN m : \A j \in DOMAIN sd :
           sd[j][1] = m[i][1] => sd[j][2].shape = m[i][2].shape

\* module.load_state_dict(sd): the data of each parameter is copied from sd
load_state_dict(m, sd) ==
    [i \in DOMAIN m |->
        <<m[i][1],
          [m[i][2] EXCEPT !.data = sd[CHOOSE j \in DOMAIN sd : sd[j][1] = m[i][1]][2].data]>>]

\* lines 615-621: the latest checkpoint is loaded into a fresh build_resnet18()
\* (result.checkpoint is None when nothing was reported)
Reload ==
    /\ cell = "reload"
    /\ IF storage = << >>
       THEN CellDone("no_checkpoint") /\ UNCHANGED loaded_model
       ELSE LET ckpt_dir == storage[Len(storage)].files
                sd == torch_load(ckpt_dir["model.pt"], "cpu")
            IN  IF CanLoad(build_resnet18, sd)
                THEN /\ loaded_model' = <<load_state_dict(build_resnet18, sd)>>
                     /\ CellDone("end")
                ELSE CellDone("load_error") /\ UNCHANGED loaded_model
    /\ UNCHANGED <<save_def, worker, storage>>

\* ---------------------------------------------------------------------
\* The notebook
\* ---------------------------------------------------------------------

NoCalls == [c \in {"setup", "step", "report", "reset", "mkdir", "writerow", "torch_save"} |-> 0]

TorchLocals ==
    /\ raised = FALSE
    /\ epoch = 0 /\ batch = 0
    /\ model = build_resnet18
    /\ loss = << >> /\ acc = AccReset /\ metrics = << >>
    /\ dirs = {} /\ files = << >> /\ calls = NoCalls /\ metrics_df = << >>

\* Part 1 is not run
TorchIdle ==
    /\ pc = "idle"
    /\ num_epochs = 0 /\ batch_size = 1
    /\ train_data \in 0..MaxData
    /\ local_path = "./checkpoints"
    /\ TorchLocals

\* lines 242-248: the call of train_loop_torch, before its first statement
TorchInit ==
    /\ pc = "setup"
    /\ num_epochs \in 0..MaxEpochs
    /\ batch_size \in 1..MaxBatchSize
    /\ train_data \in 0..MaxData
    /\ local_path \in LocalPaths
    /\ TorchLocals

\* Parts 2-6 are not run
RayIdle ==
    /\ cell = "idle" /\ save_def = 0 /\ world_size = 0
    /\ config = [num_epochs |-> 0, global_batch_size |-> 0]
    /\ worker = << >> /\ storage = << >> /\ loaded_model = << >>

\* lines 517, 573: the scaling configuration and the train loop configuration, before
\* the first cell of Part 4
RayInit ==
    /\ cell = "def_first" /\ save_def = 0
    /\ world_size \in 1..MaxWorkers
    /\ config \in [num_epochs : 0..MaxEpochs, global_batch_size : 0..MaxGlobalBatch]
    /\ worker = << >> /\ storage = << >> /\ loaded_model = << >>

\* ---------------------------------------------------------------------
\* Makefile: the recipe of the target venv
\* ---------------------------------------------------------------------

\* lines 22-30: the commands of the recipe; the lines end in "; \", so the recipe is one
\* command list handed to one shell
Recipe == <<"venv", "activate", "pip_upgrade", "pip_torch", "pip_requirements",
            "ipykernel", "chmod", "echo_created", "echo_activate">>

\* the exit statuses of a command: success, or a failure
ExitStatuses == {0, 1}

\* $?: the exit status of the last command run, 0 when none has
LastStatus == IF make_ran = << >> THEN 0 ELSE make_ran[Len(make_ran)].status

\* the shell has run the next command of the list with this exit status and, the
\* separator being ";", goes on to the command after it
Ran(status) ==
    /\ make_ran' = Append(make_ran, [cmd |-> Recipe[make_pc], status |-> status])
    /\ make_pc' = make_pc + 1

\* line 22: $(PYTHON) -m venv $(HOME)/.virtualenvs/$(PROJECT_NAME)
MakeCreateVenv ==
    /\ make_pc \in DOMAIN Recipe /\ Recipe[make_pc] = "venv"
    /\ \E st \in ExitStatuses :
           /\ Ran(st)
           /\ activate_exists' = IF st = 0 THEN TRUE ELSE activate_exists
    /\ UNCHANGED <<variant, runs, make_exit, torchVars, rayVars>>

\* line 23: . $(HOME)/.virtualenvs/$(PROJECT_NAME)/bin/activate; the special built-in "."
\* makes a non-interactive shell exit when it cannot open the file
MakeActivate ==
    /\ make_pc \in DOMAIN Recipe /\ Recipe[make_pc] = "activate"
    /\ IF activate_exists
       THEN Ran(0)
       ELSE /\ make_ran' = Append(make_ran, [cmd |-> "activate", status |-> 2])
            /\ make_pc' = Len(Recipe) + 1
    /\ UNCHANGED <<variant, runs, activate_exists, make_exit, torchVars, rayVars>>

\* lines 24-30: pip install --upgrade pip, pip install -r requirements-torch.txt,
\* pip install -r requirements.txt, ipykernel install, chmod, echo, echo
MakeRun ==
    /\ make_pc \in DOMAIN Recipe /\ Recipe[make_pc] \notin {"venv", "activate"}
    /\ \E st \in ExitStatuses : Ran(st)
    /\ UNCHANGED <<variant, runs, activate_exists, make_exit, torchVars, rayVars>>

\* the shell exits with the status of the last command it ran; make exits with 0 when
\* that is 0 and with 2 (recipe failed) otherwise
MakeReturns ==
    /\ make_pc = Len(Recipe) + 1 /\ make_exit = << >>
    /\ make_exit' = <<IF LastStatus = 0 THEN 0 ELSE 2>>
    /\ UNCHANGED <<variant, runs, make_pc, make_ran, activate_exists, torchVars, rayVars>>

\* make is not run
MakeIdle ==
    /\ make_pc = 0 /\ make_ran = << >> /\ activate_exists = FALSE /\ make_exit = << >>

\* make venv, before the first command; the environment may exist from an earlier run
MakeInit ==
    /\ make_pc = 1 /\ make_ran = << >> /\ make_exit = << >>
    /\ activate_exists \in BOOLEAN

MakeNext == MakeCreateVenv \/ MakeActivate \/ MakeRun \/ MakeReturns

\* only make venv is run
InitMake == variant = "make" /\ runs = << >> /\ TorchIdle /\ RayIdle /\ MakeInit

SpecMake == InitMake /\ [][MakeNext]_vars

\* the statements of train_loop_torch; the interpreter executes the next one as long as
\* there is one
TorchProgress ==
    \/ Setup \/ ForEpoch \/ TrainStep \/ EndOfBatches \/ Report \/ Reset
    \/ Mkdir \/ WriteRow \/ TorchSave

TorchNext == TorchProgress \/ Fail \/ ReadCsvCell

\* only Part 1 is run
InitTorch == runs = << >> /\ MakeIdle /\ variant = "torch" /\ TorchInit /\ RayIdle

\* Part 1 alone, run by an interpreter that does not stop by itself
SpecTorchFair == InitTorch /\ [][TorchNext]_vars /\ WF_vars(TorchProgress)

\* lines 242-248 run a second time: train_loop_torch is called once more in the same
\* session, on the same dataset; its locals are fresh, the file system is as the first
\* call left it
CallAgain ==
    /\ pc \in {"returned", "inspected"}
    /\ runs = << >>
    /\ runs' = Append(runs, [num_epochs |-> num_epochs, local_path |-> local_path])
    /\ num_epochs' \in 0..MaxRerunEpochs
    /\ local_path' \in LocalPaths
    /\ pc' = "setup"
    /\ raised' = FALSE
    /\ epoch' = 0 /\ batch' = 0
    /\ model' = build_resnet18
    /\ loss' = << >> /\ acc' = AccReset /\ metrics' = << >>
    /\ calls' = NoCalls /\ metrics_df' = << >>
    /\ UNCHANGED <<variant, makeVars, rayVars, batch_size, train_data, dirs, files>>

InitRerun == InitTorch /\ train_data <= MaxRerunData

NextRerun == TorchNext \/ CallAgain

\* Part 1 with its launch cell run twice, on a dataset of at most MaxRerunData samples
SpecRerun == InitRerun /\ [][NextRerun]_vars

Init ==
    /\ runs = << >> /\ MakeIdle
    /\ \/ variant = "torch" /\ TorchInit /\ RayIdle
       \/ variant = "ray" /\ TorchIdle /\ RayInit

Next ==
    \/ Setup \/ ForEpoch \/ TrainStep \/ EndOfBatches \/ Report \/ Reset
    \/ Mkdir \/ WriteRow \/ TorchSave \/ Fail \/ ReadCsvCell
    \/ DefineSaveFirst \/ DefineSaveSecond \/ Fit \/ FitReturns \/ FitFails \/ Reload
    \/ \E r \in Ranks : RaySetup(r)
    \/ \E r \in Ranks : RayForEpoch(r)
    \/ \E r \in Ranks : RaySetEpoch(r)
    \/ \E r \in Ranks : RayTrainStep(r)
    \/ \E r \in Ranks : RayEndOfBatches(r)
    \/ \E r \in Ranks : RayPrintMetrics(r)
    \/ \E r \in Ranks : RayEnterTempDir(r)
    \/ \E r \in Ranks : RayBuildCheckpoint(r)
    \/ \E r \in Ranks : RayReport(r)
    \/ \E r \in Ranks : RayReportReturns(r)
    \/ \E r \in Ranks : RayCleanup(r)
    \/ \E r \in Ranks : RayReset(r)
    \/ \E r \in Ranks : RayFail(r)

Spec == Init /\ [][Next]_vars

\* ---------------------------------------------------------------------
\* Properties
\* ---------------------------------------------------------------------

\* the rows of metrics.csv as the reader sees them
Rows == read_csv(Content(MetricsPath))

\* the rows are in epoch order: row i (0-based) carries epoch index i
InEpochOrder == \A i \in DOMAIN Rows : Rows[i].epoch = PyInt(i - 1)

\* model.pt exists and holds the weights as of the end of epoch e
HoldsWeightsOf(e) ==
    /\ CheckpointPath \in DOMAIN files
    /\ torch_load(files[CheckpointPath], "cuda") =
           [i \in DOMAIN model |->
               <<model[i][1],
                 [model[i][2] EXCEPT !.data = (e + 1) * NumBatches(train_data, batch_size)]>>]

\* C1 as stated: at every point of a single-device run that starts without a metrics
\* file, metrics.csv has exactly one row per completed epoch, in epoch order.
C1_RowPerCompletedEpochAlways ==
    variant = "torch" => (Len(Rows) = epoch /\ InEpochOrder)

\* C1 amended: the rows are always in epoch order and there are as many as completed
\* epochs, or one more; one more only after the row of the epoch in progress has been
\* appended and before its weights are saved (or when the run was aborted there).
C1_RowPerCompletedEpoch ==
    variant = "torch" =>
        /\ InEpochOrder
        /\ Len(Rows) \in {epoch, epoch + 1}
        /\ pc \notin {"torch_save", "aborted"} => Len(Rows) = epoch
        /\ pc = "inspected" => metrics_df = Rows

C1_Witness == pc = "torch_save" /\ epoch = 1 /\ Len(Rows) = 2

\* C4 as stated: no reachable state has the metrics row of epoch e appended while
\* model.pt does not hold the weights of epoch e.
C4_RowAndWeightsAtomic ==
    (variant = "torch" /\ Len(Rows) > 0) => HoldsWeightsOf(Len(Rows) - 1)

\* C4 amended: the row of an epoch is appended before its weights are saved, by two
\* separate writes: when model.pt holds the weights of epoch e the row of epoch e is in
\* metrics.csv, and when the row of epoch e is the last one model.pt holds the weights
\* of epoch e or, between the two writes or after a failure between them, still what
\* it held before (the weights of epoch e-1, no file when e = 0).
C4_RowBeforeWeights ==
    variant = "torch" =>
        LET n == Len(Rows)
        IN  /\ CheckpointPath \in DOMAIN files =>
                   /\ n >= 1
                   /\ HoldsWeightsOf(n - 1) \/ (n >= 2 /\ HoldsWeightsOf(n - 2))
            /\ n >= 2 => CheckpointPath \in DOMAIN files
            /\ (n >= 1 /\ pc \notin {"torch_save", "aborted"}) => HoldsWeightsOf(n - 1)

C4_Witness ==
    /\ pc = "aborted" /\ Len(Rows) = 2
    /\ HoldsWeightsOf(0) /\ ~HoldsWeightsOf(1)

\* C6: once a failure has been raised in the single-device loop the run is over: no
\* further batch is processed, no epoch starts, nothing is retried and no file changes.
C6_FailureAbortsRun ==
    [][raised => (raised' /\ pc' = pc /\ UNCHANGED <<epoch, batch, model, loss, acc,
                                                     metrics, dirs, files, calls>>)]_vars

C6_Witness ==
    /\ raised /\ epoch = 1 /\ epoch < num_epochs
    /\ batch = 1 /\ batch < NumBatches(train_data, batch_size)

\* the weights files of the run directory
WeightsFiles == {p \in DOMAIN files : p[1] = local_path /\ p[2] # "metrics.csv"}

\* C7: after k >= 1 completed epochs of the single-device loop the run directory holds
\* exactly one weights file, model.pt, with the weights as of the end of epoch k-1.
C7_CheckpointSuperseded ==
    (variant = "torch" /\ epoch >= 1) =>
        /\ WeightsFiles = {PathJoin(local_path, "model.pt")}
        /\ HoldsWeightsOf(epoch - 1)

C7_Witness ==
    /\ epoch = 2 /\ pc = "returned"
    /\ HoldsWeightsOf(1) /\ ~HoldsWeightsOf(0)

\* C9: a row read back under the names loss, epoch, accuracy gives each name the value
\* the metrics record has under it, and both files are in the run directory.
C9_ColumnOrder ==
    variant = "torch" =>
        /\ (metrics # << >> /\ calls.writerow = calls.report) =>
               \A name \in {"loss", "epoch", "accuracy"} :
                   Rows[Len(Rows)][name] = DictGet(metrics, name)
        /\ (pc = "inspected" /\ metrics_df # << >>) =>
               \A name \in {"loss", "epoch", "accuracy"} :
                   metrics_df[Len(metrics_df)][name] = DictGet(metrics, name)
        /\ \A p \in DOMAIN files : p[1] = local_path
        /\ epoch >= 1 => {p[2] : p \in DOMAIN files} = {"metrics.csv", "model.pt"}

C9_Witness ==
    /\ pc = "inspected" /\ Len(metrics_df) = 2
    /\ metrics_df[2] = [loss |-> PyFloat(50), epoch |-> PyInt(1), accuracy |-> PyFloat(100)]

AfterReportCall == {"in_report", "cleanup", "reset"}

\* C2: in the multi-worker loop, whatever the world size, the checkpoints produced are
\* exactly one per epoch, in epoch order, each built by rank 0; no other rank writes a
\* model file, under the definition bound when fit() runs.
C2_OneCheckpointPerEpoch ==
    variant = "ray" =>
        /\ \A i \in DOMAIN storage :
               /\ storage[i].rank = 0 /\ storage[i].epoch = i - 1
               /\ DOMAIN storage[i].files = {"model.pt"}
        /\ \A r \in Ranks :
               LET w == worker[r]
               IN  IF r = 0
                   THEN /\ w.calls["torch_save"] = w.calls["build"]
                        /\ Len(storage) = w.calls["report"]
                        /\ w.pc = "returned" => Len(storage) = config.num_epochs
                        /\ w.pc \in {"report", "in_report"} => "model.pt" \in DOMAIN w.tmp[1]
                   ELSE /\ w.calls["torch_save"] = 0
                        /\ w.tmp # << >> => "model.pt" \notin DOMAIN w.tmp[1]

C2_Witness ==
    /\ Ranks = {0, 1} /\ Len(storage) = 2
    /\ worker[0].pc = "returned" /\ worker[1].pc = "returned"
    /\ worker[0].calls["torch_save"] = 2 /\ worker[1].calls["build"] = 2

\* C3: every worker calls ray.train.report exactly once per epoch, with its metrics
\* record; rank 0 passes a checkpoint and every other rank passes None.
C3_EveryWorkerReports ==
    variant = "ray" =>
        \A r \in Ranks :
            LET w == worker[r]
            IN  /\ w.pc \in AfterReportCall => w.calls["report"] = w.epoch + 1
                /\ w.pc \notin AfterReportCall \cup {"aborted"} => w.calls["report"] = w.epoch
                /\ w.calls["report"] \in {w.epoch, w.epoch + 1}
                /\ w.pc = "returned" => w.calls["report"] = config.num_epochs
                /\ w.reported # << >> =>
                       /\ (w.reported[1].checkpoint # << >>) <=> (r = 0)
                       /\ w.calls["report"] = w.calls["print_metrics"] =>
                              w.reported[1].metrics = w.metrics

C3_Witness ==
    /\ Ranks = {0, 1}
    /\ worker[0].pc = "returned" /\ worker[0].calls["report"] = 2
    /\ worker[1].pc = "returned" /\ worker[1].calls["report"] = 2
    /\ worker[0].reported[1].checkpoint # << >>
    /\ worker[1].reported[1].checkpoint = << >>
    /\ worker[1].reported[1].metrics # worker[0].reported[1].metrics

\* C5 as stated: in both loops the metrics record of an epoch is emitted, then the
\* checkpoint is written, and only then the running accuracy is reset.
C5_ResetAfterCheckpoint ==
    /\ variant = "torch" =>
           /\ calls["torch_save"] <= calls["report"]
           /\ calls["reset"] <= calls["torch_save"]
    /\ variant = "ray" =>
           \A r \in Ranks :
               /\ worker[r].calls["report"] <= worker[r].calls["print_metrics"]
               /\ worker[r].calls["reset"] <= worker[r].calls["report"]

\* C5 amended: in both loops the metrics record of an epoch is emitted before the
\* running accuracy is reset; the multi-worker loop saves and reports the checkpoint
\* before the reset, the single-device loop resets first and writes the row and the
\* checkpoint after the reset.
C5_EndOfEpochOrder ==
    /\ variant = "torch" =>
           /\ calls["reset"] <= calls["report"]
           /\ calls["writerow"] <= calls["reset"]
           /\ calls["torch_save"] <= calls["writerow"]
           /\ calls["report"] <= calls["torch_save"] + 1
    /\ variant = "ray" =>
           \A r \in Ranks :
               /\ worker[r].calls["build"] <= worker[r].calls["print_metrics"]
               /\ worker[r].calls["report"] <= worker[r].calls["build"]
               /\ worker[r].calls["reset"] <= worker[r].calls["report"]
               /\ worker[r].calls["print_metrics"] <= worker[r].calls["reset"] + 1

C5_Witness ==
    /\ variant = "torch" /\ pc = "torch_save" /\ epoch = 1
    /\ calls["reset"] = 2 /\ calls["torch_save"] = 1

\* what rank 0 saves
SavedByRank0 == SavedStateDict(worker[0].model)

\* C8: the saved state loads into a fresh build_resnet18(): the reload never fails on
\* the keys or the shapes, the reloaded model has the parameter names and the values
\* that were saved, and its output layer has 10 classes.
C8_CheckpointRoundTrip ==
    /\ cell # "load_error"
    /\ cell = "end" =>
           LET m == loaded_model[1]
           IN  /\ DOMAIN m = DOMAIN SavedByRank0
               /\ \A i \in DOMAIN m :
                      /\ m[i][1] = SavedByRank0[i][1]
                      /\ m[i][2].data = SavedByRank0[i][2].data
                      /\ m[i][2].shape = SavedByRank0[i][2].shape
                      /\ m[i][2].device = "cpu"
                      /\ m[i][2].data = worker[0].calls["step"]
               /\ \E i \in DOMAIN m : m[i][1] = "fc.bias" /\ m[i][2].shape = <<10>>
    /\ (variant = "torch" /\ CheckpointPath \in DOMAIN files) =>
           /\ CanLoad(build_resnet18, torch_load(files[CheckpointPath], "cpu"))
           /\ \A i \in DOMAIN model :
                  load_state_dict(build_resnet18,
                                  torch_load(files[CheckpointPath], "cpu"))[i][2].data
                      = epoch * NumBatches(train_data, batch_size)

C8_Witness ==
    /\ cell = "end" /\ world_size = 2
    /\ \A i \in DOMAIN loaded_model[1] : loaded_model[1][i][2].data = 2

\* C11: a worker's batch size is the global batch size integer-divided by the world
\* size, the same on every rank, and a worker holds a checkpoint to report exactly when
\* its own rank is 0, whatever the other workers are doing.
C11_LocalDecisions ==
    variant = "ray" =>
        \A r \in Ranks :
            LET w == worker[r]
                b == config.global_batch_size \div world_size
            IN  /\ w.batch_size \in {0, b}
                /\ w.pc \notin {"setup", "aborted"} => w.batch_size = b
                /\ \A q \in Ranks :
                       (w.pc \notin {"setup", "aborted"} /\ worker[q].pc \notin {"setup", "aborted"})
                           => worker[q].batch_size = w.batch_size
                /\ w.pc \in {"report", "in_report"} => ((w.checkpoint # << >>) <=> (r = 0))
                /\ w.calls["torch_save"] = IF r = 0 THEN w.calls["build"] ELSE 0

C11_Witness ==
    /\ Ranks = {0, 1} /\ config.global_batch_size = 2
    /\ worker[0].batch_size = 1 /\ worker[1].batch_size = 1
    /\ worker[0].pc = "report" /\ worker[0].checkpoint # << >>
    /\ worker[1].pc = "in_report" /\ worker[1].checkpoint = << >>

\* C12: the single-device run flows forward: the model and the data loader are built
\* once, before the first epoch; in an epoch all batch steps come before the metrics
\* report, the report before the row and the checkpoint; and no batch of the next epoch
\* is processed before the row and the checkpoint of this epoch are written.
C12_StrictlyForward ==
    variant = "torch" =>
        LET B == NumBatches(train_data, batch_size)
        IN  /\ calls["setup"] = IF pc \in {"setup", "aborted"} /\ calls["step"] = 0
                                       /\ model = build_resnet18
                                THEN 0 ELSE 1
            /\ calls["step"] > 0 => calls["setup"] = 1
            /\ pc \in {"report", "reset", "mkdir", "writerow", "torch_save"} =>
                   /\ batch = B
                   /\ calls["step"] = (epoch + 1) * B
            /\ calls["report"] * B <= calls["step"]
            /\ calls["writerow"] <= calls["report"]
            /\ calls["torch_save"] <= calls["writerow"]
            /\ calls["step"] <= (calls["torch_save"] + 1) * B
            /\ pc = "for_batch" =>
                   /\ calls["step"] = epoch * B + batch
                   /\ calls["report"] = epoch
                   /\ calls["writerow"] = epoch /\ Len(Rows) = epoch
                   /\ calls["torch_save"] = epoch
                   /\ epoch >= 1 => HoldsWeightsOf(epoch - 1)

C12_Witness ==
    /\ pc = "for_batch" /\ epoch = 1 /\ batch = 1
    /\ NumBatches(train_data, batch_size) = 2
    /\ calls["setup"] = 1 /\ calls["step"] = 3
    /\ calls["report"] = 1 /\ calls["torch_save"] = 1

\* the steps of the target venv the failure of which the target is to report
VenvSteps == {"venv", "pip_torch", "pip_requirements", "ipykernel"}

\* the positions in make_ran of the command cmd
RanAt(cmd) == {i \in DOMAIN make_ran : make_ran[i].cmd = cmd}

\* C13: make venv runs, in this order, the creation of the environment, the installation
\* of requirements-torch.txt, that of requirements.txt and the kernel registration, and
\* when one of these steps has failed make exits with a failure.
C13_FailureReported ==
    (variant = "make" /\ make_exit # << >>) =>
        /\ \A i \in RanAt("venv") : \A j \in RanAt("pip_torch") : i < j
        /\ \A i \in RanAt("pip_torch") : \A j \in RanAt("pip_requirements") : i < j
        /\ \A i \in RanAt("pip_requirements") : \A j \in RanAt("ipykernel") : i < j
        /\ (\E i \in DOMAIN make_ran :
                make_ran[i].cmd \in VenvSteps /\ make_ran[i].status # 0)
               => make_exit[1] # 0

\* C14: the running accuracy carries nothing over between epochs: while the batches of
\* an epoch are drawn the metric has seen exactly the batches of this epoch, the accuracy
\* recorded for the epoch is computed from that state, and the metric is empty between
\* the reset and the first batch of the next epoch; in both loops.
C14_NoCarryOver ==
    /\ variant = "torch" =>
           LET B == NumBatches(train_data, batch_size)
           IN  /\ pc = "for_batch" => acc.total = batch * batch_size
               /\ pc \in {"report", "reset"} => acc.total = B * batch_size
               /\ pc = "reset" => DictGet(metrics, "accuracy") = AccCompute(acc)
               /\ pc \in {"for_epoch", "mkdir", "writerow", "torch_save", "returned"} =>
                      acc = AccReset
               /\ acc.correct <= acc.total
    /\ variant = "ray" =>
           \A r \in Ranks :
               LET w == worker[r]
                   B == NumBatches(ShardSize(train_data, world_size), w.batch_size)
               IN  /\ w.pc = "for_batch" => w.acc.total = w.batch * w.batch_size
                   /\ w.pc \in {"print_metrics", "mkdtemp", "build", "report", "in_report",
                                 "cleanup", "reset"} => w.acc.total = B * w.batch_size
                   /\ w.pc \in {"mkdtemp", "build", "report"} =>
                          DictGet(w.metrics, "accuracy") = AccCompute(AccSum(world_size))
                   /\ w.pc \in {"for_epoch", "set_epoch", "returned"} => w.acc = AccReset
                   /\ w.acc.correct <= w.acc.total

C14_Witness ==
    /\ variant = "torch" /\ pc = "reset" /\ epoch = 1
    /\ Len(Rows) = 1 /\ Rows[1].accuracy = PyFloat(0)
    /\ acc = [correct |-> 2, total |-> 2]
    /\ DictGet(metrics, "accuracy") = PyFloat(100)

\* C15: unless a failure is raised, the single-device loop with num_epochs = N and B
\* batches per epoch returns, and when it has returned it has performed exactly N*B
\* optimizer steps, emitted N metrics records and written the checkpoint N times.
C15_Terminates ==
    <>(\/ raised
       \/ /\ pc = "returned"
          /\ calls["step"] = num_epochs * NumBatches(train_data, batch_size)
          /\ calls["report"] = num_epochs
          /\ calls["writerow"] = num_epochs
          /\ calls["torch_save"] = num_epochs
          /\ \A i \in DOMAIN model :
                 model[i][2].data = num_epochs * NumBatches(train_data, batch_size))

C15_Witness ==
    /\ pc = "returned" /\ ~raised
    /\ num_epochs = 2 /\ NumBatches(train_data, batch_size) = 2
    /\ calls["step"] = 4 /\ calls["report"] = 2 /\ calls["torch_save"] = 2

\* C16: the loss recorded for an epoch is the loss of the last batch of the epoch:
\* every batch step replaces the loss by the loss of its own batch, and the record takes
\* the loss as the last step left it; and a loop whose data loader yields no batch
\* fails at the first metrics report, with no row and no checkpoint written.
C16_LastBatchLoss ==
    /\ [](variant = "torch" =>
            /\ pc \in {"reset", "mkdir", "writerow", "torch_save"} =>
                   DictGet(metrics, "loss") = loss[1]
            /\ NumBatches(train_data, batch_size) = 0 =>
                   /\ calls["report"] = 0 /\ metrics = << >>
                   /\ files = << >>
                   /\ pc \notin {"reset", "mkdir", "writerow", "torch_save"}
                   /\ pc \in {"returned", "inspected"} => num_epochs = 0
                   /\ pc = "aborted" => epoch = 0)
    /\ [](variant = "ray" =>
            \A r \in Ranks :
                LET w == worker[r]
                IN  /\ w.pc \in {"mkdtemp", "build", "report", "in_report", "cleanup",
                                  "reset"} => DictGet(w.metrics, "loss") = w.loss[1]
                    /\ w.calls["step"] = 0 =>
                           /\ w.calls["print_metrics"] = 0 /\ w.calls["report"] = 0
                           /\ w.pc = "returned" => config.num_epochs = 0)
    /\ [][calls'["step"] # calls["step"] =>
              \E b \in Batches(batch_size) :
                  /\ loss' = <<CrossEntropyLoss(b)>>
                  /\ acc' = AccUpdate(acc, b)]_vars

\* two batches, one sample each: the first is classified wrongly (a loss of at least
\* one bit), the second correctly and at no loss; the record has the loss of the second
C16_Witness ==
    /\ variant = "torch" /\ pc = "reset"
    /\ acc = [correct |-> 1, total |-> 2]
    /\ DictGet(metrics, "accuracy") = PyFloat(50)
    /\ DictGet(metrics, "loss") = PyFloat(0)

\* no batch: the loop has failed at the first report and nothing is written
C16_WitnessNoBatch ==
    /\ variant = "torch" /\ NumBatches(train_data, batch_size) = 0 /\ num_epochs = 2
    /\ pc = "aborted" /\ raised /\ calls["setup"] = 1 /\ files = << >>

\* C17: with global batch size G and world size W the batch size b of every worker
\* satisfies W*b <= G < W*(b+1): the workers together process at most G samples per
\* step, exactly G only when W divides G, and b is 0 when W > G.
C17_LocalBatchSizeBounds ==
    (variant = "ray" /\ cell \in {"fitting", "reload", "fit_failed"}) =>
        LET G == config.global_batch_size
            W == world_size
            b == LocalBatchSize(G, W)
        IN  /\ W * b <= G /\ G < W * (b + 1)
            /\ (W * b = G) <=> (G % W = 0)
            /\ W > G => b = 0
            /\ \A r \in Ranks :
                   /\ worker[r].pc \notin {"setup", "aborted"} => worker[r].batch_size = b
                   /\ worker[r].batch_size \in {0, b}
                   /\ b = 0 => worker[r].pc \in {"setup", "aborted"}

\* three samples per step asked for, two workers: one sample each, two per step
C17_Witness ==
    /\ Ranks = {0, 1} /\ config.global_batch_size = 3
    /\ worker[0].batch_size = 1 /\ worker[1].batch_size = 1
    /\ worker[0].calls["step"] = 1 /\ worker[1].calls["step"] = 1

RECURSIVE EpochsOf(_)
\* the epoch indices the completed calls rs have appended to the metrics file of the
\* current run directory: 0..N-1 for each call of N epochs on this directory
EpochsOf(rs) ==
    IF rs = << >> THEN << >>
    ELSE LET r == rs[Len(rs)]
             before == EpochsOf(SubSeq(rs, 1, Len(rs) - 1))
         IN  IF r.local_path = local_path
             THEN before \o [i \in 1..r.num_epochs |-> i - 1]
             ELSE before

\* C18: a call of train_loop_torch on a run directory earlier calls have used appends
\* to their metrics.csv and overwrites their model.pt: the file has the rows of the
\* earlier calls followed by those of this call, whose epoch index restarts at 0, and
\* the directory holds a single weights file, which holds the weights of this call as
\* soon as it has completed an epoch.
C18_SecondRunAppends ==
    LET before == EpochsOf(runs)
        n == Len(Rows) - Len(before)
    IN  /\ n \in {epoch, epoch + 1}
        /\ pc \notin {"torch_save", "aborted"} => n = epoch
        /\ \A i \in 1..Len(before) : Rows[i].epoch = PyInt(before[i])
        /\ \A i \in 1..n : Rows[Len(before) + i].epoch = PyInt(i - 1)
        /\ (Len(before) + epoch >= 1) => WeightsFiles = {PathJoin(local_path, "model.pt")}
        /\ epoch >= 1 => HoldsWeightsOf(epoch - 1)

C18_Witness ==
    /\ runs = <<[num_epochs |-> 2, local_path |-> "./checkpoints"]>>
    /\ local_path = "./checkpoints" /\ num_epochs = 1 /\ pc = "returned"
    /\ NumBatches(train_data, batch_size) = 1
    /\ Len(Rows) = 3
    /\ Rows[2].epoch = PyInt(1) /\ Rows[3].epoch = PyInt(0)
    /\ HoldsWeightsOf(0) /\ ~HoldsWeightsOf(1)

\* C19: on every worker of the multi-worker loop set_epoch is called once per epoch,
\* with the index of that epoch, before the first batch of the epoch is drawn: the calls
\* made so far are set_epoch(0), set_epoch(1), ... up to the epoch in progress, and no
\* batch of an epoch is drawn before the call for that epoch.
C19_SetEpochOncePerEpoch ==
    variant = "ray" =>
        \A r \in Ranks :
            LET w == worker[r]
                B == NumBatches(ShardSize(train_data, world_size), w.batch_size)
            IN  /\ \A i \in DOMAIN w.set_epochs : w.set_epochs[i] = i - 1
                /\ Len(w.set_epochs) \in {w.epoch, w.epoch + 1}
                /\ w.pc \in {"setup", "for_epoch", "set_epoch", "returned"} =>
                       Len(w.set_epochs) = w.epoch
                /\ w.pc \in {"for_batch", "print_metrics", "mkdtemp", "build", "report",
                              "in_report", "cleanup", "reset"} =>
                       Len(w.set_epochs) = w.epoch + 1
                /\ w.pc = "returned" => Len(w.set_epochs) = config.num_epochs
                /\ w.batch_size > 0 => w.calls["step"] <= Len(w.set_epochs) * B

C19_Witness ==
    /\ Ranks = {0, 1}
    /\ worker[0].pc = "for_batch" /\ worker[0].epoch = 1 /\ worker[0].batch = 0
    /\ worker[0].set_epochs = <<0, 1>> /\ worker[0].calls["step"] = 1
    /\ worker[1].pc = "set_epoch" /\ worker[1].set_epochs = <<0>>

====
